---- MODULE Spec2Model ----
(***************************************************************************)
(* Model of src/app.py: a Telegram bot behind a Flask webhook.             *)
(*                                                                         *)
(*   filter_video_formats  pure function over the extractor's format list  *)
(*   handle_link           resolves a link, stores the info, shows buttons *)
(*   button_handler        downloads the chosen format, sends it, removes  *)
(*                         the local file                                  *)
(*   webhook               hands each update to the dispatcher and answers *)
(*                         'ok' when the handler has returned              *)
(*                                                                         *)
(* Every webhook request is a worker with its own local variables and      *)
(* program counter; the workers in flight form a bag, as requests have no  *)
(* identity beyond what they carry.  The module contains no lock, so       *)
(* requests interleave                                                     *)
(* at every call that leaves the process (extractor, downloader, gateway)  *)
(* and at every access to context.user_data and to the working directory.  *)
(* Calls to the outside world are nondeterministic in their outcome.       *)
(* A request answers 'ok' right after its handler has returned.            *)
(* Text replies/edits that the code issues outside any try block           *)
(* (lines 57, 103, 110, 117) and the edits of the except blocks            *)
(* (lines 94, 159) are taken to succeed; the edits inside the try blocks   *)
(* (lines 84-90, 155) may raise.                                           *)
(***************************************************************************)
EXTENDS Integers, Sequences, FiniteSets, Bags, TLC

(***************************************************************************)
(* Bounds of the model.                                                    *)
(***************************************************************************)
\* number of webhook requests that may be in flight at once
MaxWorkers == 2
\* number of updates the gateway delivers in one behaviour
MaxEvents == 3
\* longest format list fed to filter_video_formats
MaxFormats == 3

(***************************************************************************)
(* Python values.                                                          *)
(***************************************************************************)
\* Python's None where a dict is expected
None == [py |-> "None"]
\* the key 'video_info' was never written (user_data.get then yields None)
Absent == [py |-> "Absent"]
\* None in a numeric field (height, filesize), apart from every number
NoneInt == 0 - 1
\* None in a string field (fmt.get on a missing key), apart from 'none'
NoneStr == "<None>"

(***************************************************************************)
(* str(int): decimal rendering, as the f-strings and str() produce it.     *)
(***************************************************************************)
Digit(d) ==
    CASE d = 0 -> "0" [] d = 1 -> "1" [] d = 2 -> "2" [] d = 3 -> "3"
      [] d = 4 -> "4" [] d = 5 -> "5" [] d = 6 -> "6" [] d = 7 -> "7"
      [] d = 8 -> "8" [] d = 9 -> "9"

RECURSIVE NatStr(_)
NatStr(n) == IF n < 10 THEN Digit(n) ELSE NatStr(n \div 10) \o Digit(n % 10)

Str(n) == IF n < 0 THEN "-" \o NatStr(0 - n) ELSE NatStr(n)

(***************************************************************************)
(* filter_video_formats (lines 25-38).                                     *)
(***************************************************************************)
allowed_res == {360, 480, 720, 1080}

\* Python truthiness of a size: None and 0 are falsy
Truthy(v) == v # NoneInt /\ v # 0

\* the size taken from 'filesize' alone
OrElse_ExactOnly(a, b) == a

\* fmt.get('filesize') or fmt.get('filesize_approx')
OrElse(a, b) == IF Truthy(a) THEN a ELSE b

\* the condition of line 32 without the test of the container
IsVideoOnlyMp4_AnyContainer(fmt) ==
    fmt.vcodec # "none" /\ fmt.acodec = "none"

\* the condition of line 32
IsVideoOnlyMp4(fmt) ==
    fmt.vcodec # "none" /\ fmt.acodec = "none" /\ fmt.ext = "mp4"

\* the membership test with seen_heights never filled
SeenBefore_Never(filtered, height) == FALSE

\* height in seen_heights (line 35): the heights of the entries kept so far
SeenBefore(filtered, height) ==
    \E k \in 1..Len(filtered) : filtered[k].height = height

\* one pass of the loop body (lines 31-37) over fmt, filtered so far given
LoopBody(filtered, fmt) ==
    IF IsVideoOnlyMp4(fmt)
    THEN LET height == fmt.height
             filesize == OrElse(fmt.filesize, fmt.filesize_approx)
         IN  IF height \in allowed_res /\ Truthy(filesize)
                /\ ~SeenBefore(filtered, height)
             THEN Append(filtered, [format_id |-> fmt.format_id,
                                    height |-> height,
                                    filesize |-> filesize])
             ELSE filtered
    ELSE filtered

\* the loop walking the list from its end
RECURSIVE Loop_FromTheEnd(_, _)
Loop_FromTheEnd(filtered, formats) ==
    IF formats = <<>> THEN filtered
    ELSE Loop_FromTheEnd(LoopBody(filtered, formats[Len(formats)]),
                         SubSeq(formats, 1, Len(formats) - 1))

\* for fmt in formats (line 30)
RECURSIVE Loop(_, _)
Loop(filtered, formats) ==
    IF formats = <<>> THEN filtered
    ELSE Loop(LoopBody(filtered, Head(formats)), Tail(formats))

\* stable insertion of x into a list sorted by height, descending
RECURSIVE InsertDesc(_, _)
InsertDesc(sorted, x) ==
    IF sorted = <<>> THEN <<x>>
    ELSE IF Head(sorted).height >= x.height
         THEN <<Head(sorted)>> \o InsertDesc(Tail(sorted), x)
         ELSE <<x>> \o sorted

\* sorted(filtered, key=height, reverse=True) (line 38)
RECURSIVE SortedDesc(_)
SortedDesc(s) ==
    IF s = <<>> THEN <<>>
    ELSE InsertDesc(SortedDesc(SubSeq(s, 1, Len(s) - 1)), s[Len(s)])

\* the function with the final sort left out
filter_video_formats_Unsorted(formats) == Loop(<<>>, formats)

filter_video_formats(formats) == SortedDesc(Loop(<<>>, formats))

(***************************************************************************)
(* The keyboard of handle_link (lines 68-78).                              *)
(***************************************************************************)
\* f"{size_mb:.1f}" in tenths of a megabyte (rounded to nearest)
SizeTenthsMB(filesize) == (filesize * 10 + 524288) \div 1048576

\* the button carrying the format's id instead of its height
VideoButton_ById(fmt) ==
    [text |-> <<Str(fmt.height) \o "p", SizeTenthsMB(fmt.filesize)>>,
     callback_data |-> fmt.format_id]

\* lines 72-75: the label and the callback data of one video format
VideoButton(fmt) ==
    [text |-> <<Str(fmt.height) \o "p", SizeTenthsMB(fmt.filesize)>>,
     callback_data |-> Str(fmt.height)]

AudioButton == [text |-> <<"Audio Only (MP3)", 0>>, callback_data |-> "audio"]

RECURSIVE VideoButtons(_)
VideoButtons(video_formats) ==
    IF video_formats = <<>> THEN <<>>
    ELSE <<VideoButton(Head(video_formats))>> \o VideoButtons(Tail(video_formats))

Keyboard(video_formats) == VideoButtons(video_formats) \o <<AudioButton>>

(***************************************************************************)
(* The world the bot runs in.                                              *)
(***************************************************************************)
\* Telegram user ids
Users == {1, 11}
\* Telegram chat ids: a private chat carries its user's id, groups are negative
Chats == {1, 11, -1}
\* who can write and press buttons in a chat
Member(u, c) == c = u \/ c < 0
\* the chats in which link messages arrive: the private chat of user 1 and
\* the group, where both users write
LinkChats == {1, -1}

\* one format descriptor of the extractor
Fmt(id, v, a, e, h, fs, fa) ==
    [format_id |-> id, vcodec |-> v, acodec |-> a, ext |-> e, height |-> h,
     filesize |-> fs, filesize_approx |-> fa]

\* what ydl.extract_info returns for the links of the model, when it returns
\* an info dict (line 62)
Links == {"A", "B"}

Extracted(url) ==
    IF url = "A"
    THEN [id |-> "12", webpage_url |-> "A", title |-> "a",
          formats |-> << Fmt("137", "avc1", "none", "mp4", 720, 5242880, NoneInt),
                         Fmt("18", "avc1", "mp4a", "mp4", 360, 3145728, NoneInt),
                         Fmt("298", "avc1", "none", "mp4", 720, 4718592, NoneInt) >>]
    ELSE [id |-> "2", webpage_url |-> "B", title |-> "b",
          formats |-> << Fmt("251", "none", "opus", "webm", NoneInt, NoneInt, 1048576) >>]

IsInfo(v) == v # None /\ v # Absent

\* context.user_data.get('video_info') (line 107): None for a missing key
Get(entry) == IF entry = Absent THEN None ELSE entry

\* info.get("id", "video") (lines 121, 135, 150)
IdOf(info) == IF IsInfo(info) /\ info.id # NoneStr THEN info.id ELSE "video"

\* the template without the separator between chat id and media id
OutputTemplate_NoSeparator(chat_id, info) == Str(chat_id) \o IdOf(info)

\* f'{chat_id}_{info.get("id", "video")}' (line 121), without '.%(ext)s'
OutputTemplate(chat_id, info) == Str(chat_id) \o "_" \o IdOf(info)

\* the template with '%(ext)s' filled in; lines 135 and 150 build the same name
FileName(template, ext) == template \o "." \o ext

\* the extension of final_filename (lines 135, 150)
FinalExt(choice) == IF choice = "audio" THEN "mp3" ELSE "mp4"

\* extensions yt-dlp may fill into the template while it works
Exts == {"mp3", "mp4", "webm", "part"}

\* every path a download with this template may touch
PathsOf(template) == {FileName(template, e) : e \in Exts}

\* ydl_opts of the two branches (lines 125-130, 140-145)
YdlOpts(choice, template) ==
    IF choice = "audio"
    THEN [format |-> "bestaudio[ext=m4a]/bestaudio/best",
          outtmpl |-> template, post |-> "mp3"]
    ELSE [format |-> "bestvideo[ext=mp4][height=" \o choice
                       \o "]+bestaudio[ext=m4a]/best[ext=mp4]/best",
          outtmpl |-> template, post |-> "merge mp4"]

\* ydl.download (lines 132, 147): the files it may leave behind and whether it
\* raises.  A video download that falls back to 'best' keeps that format's
\* own extension; a failed download may leave its partial file.
DownloadOutcomes(opts) ==
    { [raises |-> FALSE, left |-> {FileName(opts.outtmpl,
                                   IF opts.post = "mp3" THEN "mp3" ELSE "mp4")}],
      [raises |-> TRUE, left |-> {}],
      [raises |-> TRUE, left |-> {FileName(opts.outtmpl, "part")}] }
    \cup
    IF opts.post = "mp3" THEN {}
    ELSE { [raises |-> FALSE, left |-> {FileName(opts.outtmpl, "webm")}] }

(***************************************************************************)
(* State.                                                                  *)
(***************************************************************************)
VARIABLES
    user_data,      \* dispatcher.user_data[user]['video_info'] (context.user_data)
    files,          \* names of the files in the working directory
    prompts,        \* messages that carry an inline keyboard
    workers,        \* bag of the webhook requests in flight: handler locals
                    \* and position
    nEvents,        \* updates delivered so far
    resolved,       \* history: per chat, the page of the info that a link of
                    \* that chat stored last ("" before the first)
    formats_in,     \* filter check: the format list given
    video_formats,  \* filter check: result of filter_video_formats
    keyboard,       \* filter check: the keyboard built from it
    fpc             \* filter check: position

vars == <<user_data, files, prompts, workers, nEvents, resolved,
          formats_in, video_formats, keyboard, fpc>>

filterVars == <<formats_in, video_formats, keyboard, fpc>>

\* a prompt: the chat it is in, its keyboard, and as history the page it
\* was rendered for (rec), whether a later link of the chat replaced it (old)
\* and whether a download of the chat has ended, with "complete" or "failed",
\* since the last link of the chat was stored (spent)
NoPrompt == [chat |-> 0]

\* history: a download of chat c has ended
Ended(ps, c) == {[q EXCEPT !.spent = (q.spent \/ q.chat = c)] : q \in ps}

\* a worker: the update it handles (kind, user, chat, text, data, prompt), the
\* handler's locals (info, markup, ydl_opts, final_filename), its position, and as
\* history log (the calls it made and the messages it showed, in order),
\* made (the files its download left) and overwrote (its write of line 65
\* changed what the store held)
Entry ==
    [kind |-> "none", user |-> 0, chat |-> 0, pc |-> "entry", text |-> "",
     data |-> "", prompt |-> NoPrompt, info |-> Absent, markup |-> <<>>,
     log |-> <<>>, made |-> {}, final_filename |-> "",
     ydl_opts |-> [format |-> "", outtmpl |-> "", post |-> ""],
     overwrote |-> FALSE]

Running == BagToSet(workers)

\* no handler has returned without its request having answered 'ok'.  Lines
\* 167-168 run back to back and touch nothing the requests share, so a
\* request whose handler has returned answers before any other step is taken
NoneDone == \A d \in BagToSet(workers) : d.pc # "done"

\* the server takes another request
CanAccept ==
    BagCardinality(workers) < MaxWorkers /\ nEvents < MaxEvents /\ NoneDone

\* a worker starts, moves on, ends
Start(w) == workers' = workers (+) SetToBag({w})
Step(w, w2) == workers' = (workers (-) SetToBag({w})) (+) SetToBag({w2})
Finish(w) == workers' = workers (-) SetToBag({w})

Init ==
    /\ user_data = [u \in Users |-> Absent]
    /\ files = {}
    /\ prompts = {}
    /\ workers = EmptyBag
    /\ nEvents = 0
    /\ resolved = [c \in Chats |-> ""]
    /\ formats_in = <<>>
    /\ video_formats = <<>>
    /\ keyboard = <<>>
    /\ fpc = "off"

\* the worker after one more call or message
Did(w, what) == [w EXCEPT !.log = w.log \o what]

\* how often a call or message occurs in a log
RECURSIVE Count(_, _)
Count(log, x) ==
    IF log = <<>> THEN 0
    ELSE (IF Head(log) = x THEN 1 ELSE 0) + Count(Tail(log), x)

Messages == {"analyzing", "prompt", "apology", "resend", "starting",
             "complete", "failed"}

\* the messages of a log, without the calls
Shown(log) == SelectSeq(log, LAMBDA x : x \in Messages)

(***************************************************************************)
(* webhook (lines 163-168) and the dispatch to the registered handlers     *)
(* (lines 176-179).                                                        *)
(***************************************************************************)
\* a text message with a URL entity arrives: handle_link starts and sends
\* the "Analyzing link..." message (lines 53-57)
Webhook_Message(u, c, url) ==
    /\ CanAccept
    /\ Member(u, c)
    /\ Start([Entry EXCEPT !.kind = "link", !.user = u, !.chat = c,
                           !.text = url, !.log = <<"analyzing">>,
                           !.pc = "extract"])
    /\ nEvents' = nEvents + 1
    /\ UNCHANGED <<user_data, files, prompts, resolved, filterVars>>

\* button_handler starting without query.answer()
Webhook_Callback_NoAnswer(u, p, k) ==
    /\ CanAccept
    /\ p \in prompts
    /\ Member(u, p.chat)
    /\ k \in 1..Len(p.markup)
    /\ Start([Entry EXCEPT !.kind = "button", !.user = u, !.chat = p.chat,
                           !.data = p.markup[k].callback_data,
                           !.prompt = p, !.pc = "read"])
    /\ nEvents' = nEvents + 1
    /\ UNCHANGED <<user_data, files, prompts, resolved, filterVars>>

\* a button of a shown keyboard is pressed: button_handler starts and
\* answers the query (lines 102-103)
Webhook_Callback(u, p, k) ==
    /\ CanAccept
    /\ p \in prompts
    /\ Member(u, p.chat)
    /\ k \in 1..Len(p.markup)
    /\ Start([Entry EXCEPT !.kind = "button", !.user = u, !.chat = p.chat,
                           !.data = p.markup[k].callback_data,
                           !.prompt = p, !.log = <<"answer">>,
                           !.pc = "read"])
    /\ nEvents' = nEvents + 1
    /\ UNCHANGED <<user_data, files, prompts, resolved, filterVars>>

\* process_update has returned: the request answers 'ok' (line 168)
Webhook_Return(w) ==
    /\ w \in Running
    /\ w.pc = "done"
    /\ Finish(w)
    /\ UNCHANGED <<user_data, files, prompts, nEvents, resolved, filterVars>>

(***************************************************************************)
(* handle_link (lines 51-98).                                              *)
(***************************************************************************)
\* the except block swallowing the error without a message
HL_Except_Silent(w) == [w EXCEPT !.pc = "done"]

\* lines 92-98: the except block shows the apology; the handler returns
HL_Except(w) == [Did(w, <<"apology">>) EXCEPT !.pc = "done"]

\* ydl.extract_info (lines 61-62) raises, returns None, or returns the info
\* dict
extract_info(url) ==
    { [raises |-> TRUE, info |-> None],
      [raises |-> FALSE, info |-> None],
      [raises |-> FALSE, info |-> Extracted(url)] }

\* handle_link resetting the entry when the extraction raises
HL_Store_ClearsOnRaise(w0) ==
    /\ w0 \in Running /\ NoneDone
    /\ w0.kind = "link" /\ w0.pc = "extract"
    /\ \E o \in extract_info(w0.text) :
          IF o.raises
          THEN /\ Step(w0, HL_Except(Did(w0, <<"extract">>)))
               /\ user_data' = [user_data EXCEPT ![w0.user] = None]
               /\ UNCHANGED <<resolved, prompts>>
          ELSE LET w == [Did(w0, <<"extract", "store">>) EXCEPT
                            !.info = o.info,
                            !.overwrote = (Get(user_data[w0.user]) # o.info)]
               IN  /\ user_data' = [user_data EXCEPT ![w.user] = w.info]
                   /\ IF IsInfo(w.info)
                      THEN /\ Step(w0, [w EXCEPT
                                  !.markup = Keyboard(filter_video_formats(
                                                 w.info.formats)),
                                  !.pc = "prompt"])
                           /\ resolved' = [resolved EXCEPT
                                              ![w.chat] = w.info.webpage_url]
                           /\ prompts' = {[q EXCEPT
                                             !.old = (q.old \/ q.chat = w.chat),
                                             !.spent = (q.spent /\ q.chat # w.chat)] :
                                             q \in prompts}
                      ELSE /\ Step(w0, HL_Except(w))
                           /\ UNCHANGED <<resolved, prompts>>
    /\ UNCHANGED <<files, nEvents, filterVars>>

\* lines 59-81: extract, then store; the extraction touches nothing shared, so
\* it is taken together with the store that follows it.  The info is stored
\* before it is looked at; info.get on None raises AttributeError at line 66
HL_Store(w0) ==
    /\ w0 \in Running /\ NoneDone
    /\ w0.kind = "link" /\ w0.pc = "extract"
    /\ \E o \in extract_info(w0.text) :
          IF o.raises
          THEN /\ Step(w0, HL_Except(Did(w0, <<"extract">>)))
               /\ UNCHANGED <<user_data, resolved, prompts>>
          ELSE LET w == [Did(w0, <<"extract", "store">>) EXCEPT
                            !.info = o.info,
                            !.overwrote = (Get(user_data[w0.user]) # o.info)]
               IN  /\ user_data' = [user_data EXCEPT ![w.user] = w.info]
                   /\ IF IsInfo(w.info)
                      THEN /\ Step(w0, [w EXCEPT
                                  !.markup = Keyboard(filter_video_formats(
                                                 w.info.formats)),
                                  !.pc = "prompt"])
                           /\ resolved' = [resolved EXCEPT
                                              ![w.chat] = w.info.webpage_url]
                           /\ prompts' = {[q EXCEPT
                                             !.old = (q.old \/ q.chat = w.chat),
                                             !.spent = (q.spent /\ q.chat # w.chat)] :
                                             q \in prompts}
                      ELSE /\ Step(w0, HL_Except(w))
                           /\ UNCHANGED <<resolved, prompts>>
    /\ UNCHANGED <<files, nEvents, filterVars>>

\* lines 84-90: the placeholder becomes the prompt, unless the edit raises
HL_Prompt(w0) ==
    LET w == w0 IN
    /\ w0 \in Running /\ NoneDone
    /\ w.kind = "link" /\ w.pc = "prompt"
    /\ \/ /\ Step(w0, [Did(w, <<"prompt">>) EXCEPT !.pc = "done"])
          /\ prompts' = prompts \cup
                 {[chat |-> w.chat, markup |-> w.markup,
                   rec |-> w.info.webpage_url, old |-> FALSE,
                   spent |-> FALSE]}
       \/ /\ Step(w0, HL_Except(w))
          /\ UNCHANGED prompts
    /\ UNCHANGED <<user_data, files, nEvents, resolved, filterVars>>

(***************************************************************************)
(* button_handler (lines 100-159).                                         *)
(***************************************************************************)
\* editing the pressed message to plain text drops its keyboard
WithoutKeyboard(ps, p) ==
    {q \in ps : ~(q.chat = p.chat /\ q.markup = p.markup /\ q.rec = p.rec)}

\* the except block missing: the handler goes on to line 155
BH_Except_FallsThrough(w) == [Did(w, <<"complete">>) EXCEPT !.pc = "done"]

\* the except block sending the handler back to the download
BH_Except_Retry(w) == [Did(w, <<"failed">>) EXCEPT !.pc = "download"]

\* lines 157-159: the except block shows the failure message; the handler
\* returns
BH_Except(w) == [Did(w, <<"failed">>) EXCEPT !.pc = "done"]

\* the check of line 109 never taking the early return
NotInfo_Never(info) == FALSE

\* `not info` (line 109)
NotInfo(info) == ~IsInfo(info)

\* lines 105-117: read the store; without an info say so and return,
\* otherwise announce the download
BH_Read(w0) ==
    LET w == [Did(w0, <<"read">>) EXCEPT !.info = Get(user_data[w0.user])]
    IN
    /\ w0 \in Running /\ NoneDone
    /\ w0.kind = "button" /\ w0.pc = "read"
    /\ IF NotInfo(w.info)
       THEN Step(w0, [Did(w, <<"resend">>) EXCEPT !.pc = "done"])
       ELSE Step(w0, [Did(w, <<"starting">>) EXCEPT !.pc = "download"])
    /\ prompts' = WithoutKeyboard(prompts, w.prompt)
    /\ UNCHANGED <<user_data, files, nEvents, resolved, filterVars>>

\* lines 121-132 and 140-147: build the template and the options, download
BH_Download(w0) ==
    LET output_template == OutputTemplate(w0.chat, w0.info)
        ydl_opts == YdlOpts(w0.data, output_template)
        w == [Did(w0, <<"download">>) EXCEPT !.ydl_opts = ydl_opts]
    IN
    /\ w0 \in Running /\ NoneDone
    /\ w.kind = "button" /\ w.pc = "download"
    /\ \E o \in DownloadOutcomes(ydl_opts) :
          /\ files' = files \cup o.left
          /\ Step(w0, IF o.raises
                    THEN BH_Except([w EXCEPT !.made = w.made \cup o.left])
                    ELSE [w EXCEPT !.made = w.made \cup o.left, !.pc = "send"])
          /\ prompts' = IF o.raises THEN Ended(prompts, w.chat) ELSE prompts
    /\ UNCHANGED <<user_data, nEvents, resolved, filterVars>>

\* lines 135-136 and 150-151: open the expected file and send it; open raises
\* when the file is not there, the send may raise
BH_Send(w0) ==
    LET w == [Did(w0, <<"open">>) EXCEPT !.final_filename =
                 FileName(OutputTemplate(w0.chat, w0.info), FinalExt(w0.data))]
    IN
    /\ w0 \in Running /\ NoneDone
    /\ w0.kind = "button" /\ w0.pc = "send"
    /\ IF w.final_filename \notin files
       THEN /\ Step(w0, BH_Except(w))
            /\ prompts' = Ended(prompts, w.chat)
       ELSE \/ /\ Step(w0, [Did(w, <<"send">>) EXCEPT !.pc = "remove"])
               /\ UNCHANGED prompts
            \/ /\ Step(w0, BH_Except(Did(w, <<"send">>)))
               /\ prompts' = Ended(prompts, w.chat)
    /\ UNCHANGED <<user_data, files, nEvents, resolved, filterVars>>

\* lines 137 and 152, then 155: os.remove (raises when the file is gone) and
\* the completion message, whose edit is inside the try block and may raise
BH_Remove(w0) ==
    LET w == Did(w0, <<"remove">>) IN
    /\ w0 \in Running /\ NoneDone
    /\ w.kind = "button" /\ w.pc = "remove"
    /\ IF w.final_filename \in files
       THEN /\ files' = files \ {w.final_filename}
            /\ \/ Step(w0, [Did(w, <<"complete">>) EXCEPT !.pc = "done"])
               \/ Step(w0, BH_Except(w))
       ELSE /\ Step(w0, BH_Except(w))
            /\ UNCHANGED files
    /\ prompts' = Ended(prompts, w.chat)
    /\ UNCHANGED <<user_data, nEvents, resolved, filterVars>>

(***************************************************************************)
(* filter_video_formats and the keyboard on arbitrary format lists: the    *)
(* two calls of handle_link (lines 66 and 68-78) applied to every list of  *)
(* at most MaxFormats descriptors.                                         *)
(***************************************************************************)
D(v, a, e, h, fs, fa) ==
    [vcodec |-> v, acodec |-> a, ext |-> e, height |-> h,
     filesize |-> fs, filesize_approx |-> fa]

\* descriptors as extractors report them: admissible ones of several heights
\* and sizes, and ones that fail each test of lines 32 and 35
Descs ==
    { D("avc1", "none", "mp4", 720, 5242880, NoneInt),
      D("avc1", "none", "mp4", 720, 4718592, NoneInt),
      D("avc1", "none", "mp4", 480, 3145728, NoneInt),
      D("avc1", "none", "mp4", 1080, NoneInt, 9437184),
      D("avc1", "none", "mp4", 720, NoneInt, NoneInt),
      D("avc1", "none", "mp4", 360, 0, NoneInt),
      D("avc1", "none", "mp4", 360, 0, 1048576),
      D("none", "none", "mp4", 720, 5242880, NoneInt),
      D("avc1", "mp4a", "mp4", 480, 3145728, NoneInt),
      D("vp9", "none", "webm", 1080, 9437184, NoneInt),
      D("avc1", "none", "mp4", 240, 1048576, NoneInt),
      D("avc1", "none", "mp4", NoneInt, 1048576, NoneInt),
      D(NoneStr, "none", "mp4", 480, 2097152, NoneInt) }

\* the extractor numbers the formats of a list
WithIds(ds) ==
    [k \in 1..Len(ds) |->
        Fmt(Str(k), ds[k].vcodec, ds[k].acodec, ds[k].ext, ds[k].height,
            ds[k].filesize, ds[k].filesize_approx)]

FilterInit ==
    /\ user_data = [u \in Users |-> Absent]
    /\ files = {}
    /\ prompts = {}
    /\ workers = EmptyBag
    /\ nEvents = 0
    /\ resolved = [c \in Chats |-> ""]
    /\ \E n \in 0..MaxFormats : \E ds \in [1..n -> Descs] :
          formats_in = WithIds(ds)
    /\ video_formats = <<>>
    /\ keyboard = <<>>
    /\ fpc = "given"

\* line 66: video_formats = filter_video_formats(info.get('formats', []))
Filter_Call ==
    /\ fpc = "given"
    /\ video_formats' = filter_video_formats(formats_in)
    /\ fpc' = "filtered"
    /\ UNCHANGED <<user_data, files, prompts, workers, nEvents, resolved,
                   formats_in, keyboard>>

\* lines 68-78: one button per video format, then the audio button
Filter_Keyboard ==
    /\ fpc = "filtered"
    /\ keyboard' = Keyboard(video_formats)
    /\ fpc' = "rendered"
    /\ UNCHANGED <<user_data, files, prompts, workers, nEvents, resolved,
                   formats_in, video_formats>>

FilterNext == Filter_Call \/ Filter_Keyboard

FilterSpec == FilterInit /\ [][FilterNext]_vars

(***************************************************************************)
(* Two downloads side by side: two button presses that have passed the     *)
(* store check (line 117 done), in any two chats, for any media id.        *)
(***************************************************************************)
\* media ids as extractors report them; NoneStr: the info has no 'id'
MediaIds == {"12", "2", "1_2", NoneStr}

InfoWithId(id) == [Extracted("A") EXCEPT !.id = id]

\* a button_handler that has just shown "starting download"
Downloading(u, c, id, data) ==
    [Entry EXCEPT !.kind = "button", !.user = u, !.chat = c, !.data = data,
                 !.prompt = [chat |-> c,
                             markup |-> Keyboard(filter_video_formats(
                                            InfoWithId(id).formats)),
                             rec |-> InfoWithId(id).webpage_url, old |-> FALSE,
                             spent |-> FALSE],
                 !.info = InfoWithId(id),
                 !.log = <<"answer", "read", "starting">>,
                 !.pc = "download"]

DownloadsInit ==
    /\ \E u1 \in Users, u2 \in Users, c1 \in Chats, c2 \in Chats,
          id1 \in MediaIds, id2 \in MediaIds,
          d1 \in {"720", "audio"}, d2 \in {"720", "audio"} :
          /\ Member(u1, c1) /\ Member(u2, c2)
          /\ workers = SetToBag({Downloading(u1, c1, id1, d1)})
                          (+) SetToBag({Downloading(u2, c2, id2, d2)})
          /\ user_data = [u \in Users |->
                           IF u = u2 THEN InfoWithId(id2)
                           ELSE IF u = u1 THEN InfoWithId(id1) ELSE Absent]
          /\ resolved = [c \in Chats |->
                           IF c \in {c1, c2} THEN "A" ELSE ""]
    /\ files = {}
    /\ prompts = {}
    /\ nEvents = MaxEvents
    /\ formats_in = <<>>
    /\ video_formats = <<>>
    /\ keyboard = <<>>
    /\ fpc = "off"

DownloadsNext ==
    \/ \E w \in Running : BH_Download(w)
    \/ \E w \in Running : BH_Send(w)
    \/ \E w \in Running : BH_Remove(w)
    \/ \E w \in Running : Webhook_Return(w)

DownloadsSpec == DownloadsInit /\ [][DownloadsNext]_vars

(***************************************************************************)
(* Button presses in a chat in which two links have been resolved, one     *)
(* after the other, and both prompts shown: the state the bot is in after  *)
(* two handle_link runs (lines 51-90) have returned.                       *)
(***************************************************************************)
\* the prompt handle_link shows for url in chat c (lines 66-90)
PromptFor(c, url, old) ==
    [chat |-> c,
     markup |-> Keyboard(filter_video_formats(Extracted(url).formats)),
     rec |-> Extracted(url).webpage_url, old |-> old, spent |-> FALSE]

PressesInit ==
    /\ \E c \in LinkChats, u1 \in Users, u2 \in Users,
          url1 \in Links, url2 \in Links :
          /\ Member(u1, c) /\ Member(u2, c)
          /\ user_data = [u \in Users |->
                           IF u = u2 THEN Extracted(url2)
                           ELSE IF u = u1 THEN Extracted(url1) ELSE Absent]
          /\ prompts = {PromptFor(c, url1, TRUE), PromptFor(c, url2, FALSE)}
          /\ resolved = [d \in Chats |-> IF d = c THEN url2 ELSE ""]
    /\ files = {}
    /\ workers = EmptyBag
    /\ nEvents = MaxEvents - 2
    /\ formats_in = <<>>
    /\ video_formats = <<>>
    /\ keyboard = <<>>
    /\ fpc = "off"

PressesNext ==
    \/ \E u \in Users, p \in prompts, k \in 1..5 : Webhook_Callback(u, p, k)
    \/ \E w \in Running : BH_Read(w)
    \/ \E w \in Running : BH_Download(w)
    \/ \E w \in Running : BH_Send(w)
    \/ \E w \in Running : BH_Remove(w)
    \/ \E w \in Running : Webhook_Return(w)

PressesSpec == PressesInit /\ [][PressesNext]_vars

(***************************************************************************)
(* The bot.                                                                *)
(***************************************************************************)
Next ==
    \/ \E u \in Users, c \in LinkChats, url \in Links : Webhook_Message(u, c, url)
    \/ \E u \in Users, p \in prompts, k \in 1..5 : Webhook_Callback(u, p, k)
    \/ \E w \in Running : Webhook_Return(w)
    \/ \E w \in Running : HL_Store(w)
    \/ \E w \in Running : HL_Prompt(w)
    \/ \E w \in Running : BH_Read(w)
    \/ \E w \in Running : BH_Download(w)
    \/ \E w \in Running : BH_Send(w)
    \/ \E w \in Running : BH_Remove(w)

Spec == Init /\ [][Next]_vars

(***************************************************************************)
(* Properties.                                                             *)
(***************************************************************************)
Button(w) == w.kind = "button"

InDownload(w) == Button(w) /\ w.pc \in {"download", "send", "remove"}

TemplateOf(w) == OutputTemplate(w.chat, w.info)

\* a and b are two requests in flight
Two(a, b) ==
    a \in Running /\ b \in Running /\ (a # b \/ CopiesIn(a, workers) > 1)

\* the step taken is one of worker w
Moves(w) == CopiesIn(w, workers') < CopiesIn(w, workers)

\* the workers the step has put into the bag
Moved == {w2 \in BagToSet(workers') : CopiesIn(w2, workers') > CopiesIn(w2, workers)}

\* C1: when a button_handler that started a download returns, none of the
\* files it produced is left in the working directory, whichever way it ended.
C1_NoFileLeftAtReturn ==
    \A w \in Running :
       (Button(w) /\ w.pc = "done" /\ Count(w.log, "download") > 0) =>
          w.made \cap files = {}

\* C2: a button of a prompt that a later link of the same chat has replaced
\* gets the 'please resend the link' message and starts no download.
C2_OldPromptPressIsStale ==
    \A w \in Running :
       (Button(w) /\ w.prompt.old /\ w.pc # "read") =>
          /\ Shown(w.log) = <<"resend">>
          /\ Count(w.log, "download") = 0

\* C3: a handle_link whose extraction returned None shows the apology and
\* leaves the entry of the store as it was.
C3_NullResultWritesNothing ==
    [][ \A w \in Running :
          (w.kind = "link" /\ w.pc = "extract" /\ Moves(w)) =>
             \A w2 \in Moved :
                (w2.info = None /\ Count(w2.log, "store") = 1) =>
                   /\ Shown(w2.log) = <<"analyzing", "apology">>
                   /\ Get(user_data'[w.user]) = Get(user_data[w.user]) ]_vars

\* C4: a button press that finds no info in the store shows 'please resend
\* the link' and returns: no "starting download", no download, no file, no
\* completion or failure message.
C4_NoRecordNoDownload ==
    \A w \in Running :
       (Button(w) /\ w.pc # "read" /\ ~IsInfo(w.info)) =>
          /\ w.pc = "done"
          /\ w.log = <<"answer", "read", "resend">>
          /\ w.made = {}

\* such a press has returned
C4_Witness ==
    \E w \in Running :
       /\ Button(w) /\ w.pc = "done"
       /\ ~IsInfo(w.info)
       /\ ~IsInfo(user_data[w.user])
       /\ files = {}

\* C5: the info a button press reads is the one the latest successful link of
\* the chat it was pressed in has stored.
C5_ReadsTheChatsLatestRecord ==
    [][ \A w \in Running :
          (Button(w) /\ w.pc = "read" /\ Moves(w)) =>
             \A w2 \in Moved :
                IsInfo(w2.info) => w2.info.webpage_url = resolved[w.chat] ]_vars

\* C6: the output file name is determined by (chat id, media id, branch) and
\* by nothing else, and two handlers downloading at the same time for
\* different chats share no path: neither the paths their templates cover
\* nor the files they have written, opened or are about to remove.
C6_FileNamesApartAcrossChats ==
    \A a \in Running, b \in Running :
       (Two(a, b) /\ Button(a) /\ Button(b)) =>
          /\ (a.final_filename # "" /\ b.final_filename # "") =>
               ( a.final_filename = b.final_filename
                 <=> /\ a.chat = b.chat
                     /\ IdOf(a.info) = IdOf(b.info)
                     /\ FinalExt(a.data) = FinalExt(b.data) )
          /\ (InDownload(a) /\ InDownload(b) /\ a.chat # b.chat) =>
               /\ PathsOf(TemplateOf(a)) \cap PathsOf(TemplateOf(b)) = {}
               /\ a.made \cap PathsOf(TemplateOf(b)) = {}
               /\ a.final_filename \notin PathsOf(TemplateOf(b))

\* two chats, the same media id, both files on disk, both handlers between
\* download and remove
C6_Witness ==
    \E a \in Running, b \in Running :
       /\ InDownload(a) /\ InDownload(b)
       /\ a.chat # b.chat
       /\ IdOf(a.info) = IdOf(b.info)
       /\ a.pc = "remove" /\ b.pc = "send"
       /\ a.final_filename \in files
       /\ b.made # {} /\ b.made \subseteq files

\* C7: two handlers never download for one chat and one selector at the same
\* time.
C7_OneDownloadPerChat ==
    \A a \in Running, b \in Running :
       (Two(a, b) /\ InDownload(a) /\ InDownload(b)) =>
          ~(a.chat = b.chat /\ a.data = b.data)

Admitted(fmt) == LoopBody(<<>>, fmt) # <<>>

\* C9: the keyboard never holds two video buttons of one height, and holds
\* the audio button exactly once, as its last button; it is never empty.
C9_NoTwoOfOneHeightAudioLast ==
    /\ fpc \in {"filtered", "rendered"} =>
          \A a \in 1..Len(video_formats), b \in 1..Len(video_formats) :
             a < b => video_formats[a].height # video_formats[b].height
    /\ fpc = "rendered" =>
          /\ Len(keyboard) >= 1
          /\ keyboard[Len(keyboard)].callback_data = "audio"
          /\ \A a \in 1..(Len(keyboard) - 1) :
                /\ keyboard[a].callback_data # "audio"
                /\ \A b \in 1..(Len(keyboard) - 1) :
                      a < b => keyboard[a].callback_data # keyboard[b].callback_data

\* a list with two admissible descriptors of one height has been rendered
C9_Witness ==
    /\ fpc = "rendered"
    /\ Len(keyboard) = 3
    /\ \E a \in 1..Len(formats_in), b \in 1..Len(formats_in) :
          /\ a < b
          /\ Admitted(formats_in[a]) /\ Admitted(formats_in[b])
          /\ formats_in[a].height = formats_in[b].height

\* C10: the video formats returned are in strictly descending order of height.
C10_StrictlyDescending ==
    fpc \in {"filtered", "rendered"} =>
       \A k \in 1..(Len(video_formats) - 1) :
          video_formats[k].height > video_formats[k + 1].height

\* a list whose admissible heights came in ascending order has been filtered
C10_Witness ==
    /\ fpc = "filtered"
    /\ Len(video_formats) = 3
    /\ \A a \in 1..2 :
          /\ Admitted(formats_in[a]) /\ Admitted(formats_in[a + 1])
          /\ formats_in[a].height < formats_in[a + 1].height

\* the positions of formats_in whose descriptor passes lines 32 and 35 on its
\* own and has height h
AdmittedAt(h) ==
    {k \in 1..Len(formats_in) :
        Admitted(formats_in[k]) /\ formats_in[k].height = h}

Least(S) == CHOOSE k \in S : \A j \in S : k <= j

\* C11: the entry returned for a height is built from the first descriptor
\* of the list that is admissible at that height (its format_id, its size);
\* a later descriptor of the same height never takes its place.
C11_FirstOfAHeightWins ==
    fpc \in {"filtered", "rendered"} =>
       \A e \in 1..Len(video_formats) :
          LET h == video_formats[e].height
              first == formats_in[Least(AdmittedAt(h))]
          IN  /\ AdmittedAt(h) # {}
              /\ video_formats[e].format_id = first.format_id
              /\ video_formats[e].filesize =
                    OrElse(first.filesize, first.filesize_approx)

\* a list with two admissible descriptors of one height and different sizes
\* has been filtered, the first of them not at the head of the list
C11_Witness ==
    /\ fpc = "filtered"
    /\ \E a \in 2..Len(formats_in), b \in 2..Len(formats_in) :
          /\ a < b
          /\ AdmittedAt(formats_in[a].height) = {a, b}
          /\ formats_in[a].filesize # formats_in[b].filesize
          /\ \E e \in 1..Len(video_formats) :
                video_formats[e].format_id = formats_in[a].format_id

\* the descriptor at position k of formats_in is among the formats returned
Emits(k) ==
    \E e \in 1..Len(video_formats) :
       video_formats[e].format_id = formats_in[k].format_id

\* video-bearing, audio-absent, of the mp4 container, of one of the four
\* heights
RightKind(fmt) ==
    /\ fmt.vcodec # "none" /\ fmt.acodec = "none" /\ fmt.ext = "mp4"
    /\ fmt.height \in {360, 480, 720, 1080}

\* the positions of the descriptors of height h that are of the right kind
\* and whose size is known in the sense of Known
WithSize(h, Known(_)) ==
    {k \in 1..Len(formats_in) :
        /\ RightKind(formats_in[k]) /\ formats_in[k].height = h
        /\ (Known(formats_in[k].filesize) \/ Known(formats_in[k].filesize_approx))}

\* the size field is there
Present(v) == v # NoneInt

\* C12 as stated: a descriptor with neither size is never returned; among the
\* descriptors of the right kind and of one height that carry a size (exact
\* or approximate), the first is returned.
C12_SizePresentSuffices ==
    fpc \in {"filtered", "rendered"} =>
       /\ \A k \in 1..Len(formats_in) :
             (~Present(formats_in[k].filesize)
                /\ ~Present(formats_in[k].filesize_approx)) => ~Emits(k)
       /\ \A h \in allowed_res :
             WithSize(h, Present) # {} => Emits(Least(WithSize(h, Present)))

\* C12 amended: a size of 0 counts as no size.  A descriptor whose sizes are
\* both absent or 0 is never returned; among the descriptors of the right
\* kind and of one height that carry a size other than 0, the first is
\* returned.
C12_NonZeroSizeSuffices ==
    fpc \in {"filtered", "rendered"} =>
       /\ \A k \in 1..Len(formats_in) :
             (~Truthy(formats_in[k].filesize)
                /\ ~Truthy(formats_in[k].filesize_approx)) => ~Emits(k)
       /\ \A h \in allowed_res :
             WithSize(h, Truthy) # {} => Emits(Least(WithSize(h, Truthy)))

\* a list has been filtered in which a descriptor with neither size, one
\* with only an approximate size and one with exact size 0 occur; the one
\* with the approximate size is returned
C12_Witness ==
    /\ fpc = "filtered"
    /\ \E a \in 1..Len(formats_in), b \in 1..Len(formats_in),
          c \in 1..Len(formats_in) :
          /\ RightKind(formats_in[a])
          /\ ~Present(formats_in[a].filesize)
          /\ ~Present(formats_in[a].filesize_approx)
          /\ RightKind(formats_in[b])
          /\ ~Present(formats_in[b].filesize)
          /\ Truthy(formats_in[b].filesize_approx)
          /\ Emits(b)
          /\ RightKind(formats_in[c])
          /\ formats_in[c].filesize = 0
          /\ ~Emits(c)

\* C13: a button pressed after a download of the chat has ended ("complete"
\* or "failed"), with no link of the chat stored since, starts no download:
\* no "starting download" message, no call of the downloader.
C13_NoDownloadAfterTheEnd ==
    \A w \in Running :
       (Button(w) /\ w.prompt.spent /\ w.pc # "read") =>
          /\ Count(w.log, "starting") = 0
          /\ Count(w.log, "download") = 0

\* the log of a press that went all the way
SuccessLog ==
    <<"answer", "read", "starting", "download", "open", "send", "remove",
      "complete">>

Link(w) == w.kind = "link"

\* C15: a handle_link shows "analyzing" first and once, then at most one of
\* the prompt and the apology, and exactly one, as its last message, when it
\* returns; the prompt only after the extraction returned an info and it was
\* stored; a handler whose extraction raised or returned None, or whose
\* prompt could not be shown, returns with the apology and without a prompt.
C15_PlaceholderThenOneReplacement ==
    \A w \in Running :
       Link(w) =>
          /\ Head(w.log) = "analyzing" /\ Count(w.log, "analyzing") = 1
          /\ Len(Shown(w.log)) <= 2
          /\ Count(w.log, "prompt") + Count(w.log, "apology") <= 1
          /\ w.pc = "done" <=>
                Count(w.log, "prompt") + Count(w.log, "apology") = 1
          /\ w.pc = "done" => w.log[Len(w.log)] \in {"prompt", "apology"}
          /\ Count(w.log, "prompt") = 1 =>
                /\ w.log = <<"analyzing", "extract", "store", "prompt">>
                /\ IsInfo(w.info)
          /\ (w.pc = "done" /\ (~IsInfo(w.info) \/ Count(w.log, "store") = 0)) =>
                Count(w.log, "apology") = 1

\* a link handler has returned with the apology after its extraction
\* returned None, in a chat that shows the prompt of an earlier link
C15_Witness ==
    \E b \in Running, p \in prompts :
       /\ Link(b) /\ b.pc = "done" /\ b.info = None
       /\ b.log = <<"analyzing", "extract", "store", "apology">>
       /\ p.chat = b.chat

\* C16: the first thing a button_handler does is answer the query, once:
\* before it reads the store, edits a message or calls the downloader, on the
\* 'please resend' path as on the others.
C16_AnswerFirst ==
    \A w \in Running :
       Button(w) =>
          /\ w.log # <<>> /\ Head(w.log) = "answer"
          /\ Count(w.log, "answer") = 1

\* a press that found no info has returned, another has called the
\* downloader
C16_Witness ==
    \E a \in Running, b \in Running :
       /\ Button(a) /\ a.log = <<"answer", "read", "resend">>
       /\ Button(b) /\ Count(b.log, "download") = 1

\* every format returned is built from a descriptor of the right kind, with
\* that descriptor's height
FromTheRightKind ==
    \A e \in 1..Len(video_formats) :
       \E k \in 1..Len(formats_in) :
          /\ formats_in[k].format_id = video_formats[e].format_id
          /\ formats_in[k].height = video_formats[e].height
          /\ RightKind(formats_in[k])

HeightReturned(h) ==
    \E e \in 1..Len(video_formats) : video_formats[e].height = h

\* C17 as stated: every format returned comes from a descriptor of the right
\* kind, and every height for which the list holds a descriptor of the right
\* kind that carries a size (exact or approximate) is returned.
C17_RightKindAndEveryHeight ==
    fpc \in {"filtered", "rendered"} =>
       /\ FromTheRightKind
       /\ \A h \in {360, 480, 720, 1080} :
             WithSize(h, Present) # {} => HeightReturned(h)

\* C17 amended: a size of 0 counts as no size.  Every format returned comes
\* from a descriptor of the right kind, and every height for which the list
\* holds a descriptor of the right kind with a size other than 0 is returned.
C17_RightKindAndEveryHeightWithNonZeroSize ==
    fpc \in {"filtered", "rendered"} =>
       /\ FromTheRightKind
       /\ \A h \in {360, 480, 720, 1080} :
             WithSize(h, Truthy) # {} => HeightReturned(h)

\* a list has been filtered that holds a webm descriptor and one with audio,
\* both of an allowed height and with a size, and one of the right kind, the
\* only one returned
C17_Witness ==
    /\ fpc = "filtered"
    /\ Len(video_formats) = 1
    /\ \E a \in 1..Len(formats_in), b \in 1..Len(formats_in) :
          /\ formats_in[a].ext = "webm" /\ formats_in[b].acodec # "none"
          /\ \A k \in {a, b} :
                /\ formats_in[k].height \in {360, 480, 720, 1080}
                /\ formats_in[k].height # video_formats[1].height
                /\ Truthy(formats_in[k].filesize)

\* C18: the data a press carries is the callback data of a button of the
\* prompt it was pressed on: "audio", or the decimal height that button's
\* label shows.  An "audio" press asks the downloader for audio with mp3
\* extraction and expects <template>.mp3; a height press asks for
\* bestvideo of just that height first and expects <template>.mp4; the
\* expected name is the name the handler opens, sends and removes.
C18_SelectorRoundTrip ==
    \A w \in Running :
       Button(w) =>
          /\ \E k \in 1..Len(w.prompt.markup) :
                /\ w.prompt.markup[k].callback_data = w.data
                /\ \/ w.data = "audio" /\ k = Len(w.prompt.markup)
                   \/ w.prompt.markup[k].text[1] = w.data \o "p"
          /\ Count(w.log, "download") > 0 =>
                /\ w.ydl_opts.outtmpl = Str(w.chat) \o "_" \o IdOf(w.info)
                /\ IF w.data = "audio"
                   THEN /\ w.ydl_opts.format = "bestaudio[ext=m4a]/bestaudio/best"
                        /\ w.ydl_opts.post = "mp3"
                   ELSE /\ w.ydl_opts.format =
                             "bestvideo[ext=mp4][height=" \o w.data
                                \o "]+bestaudio[ext=m4a]/best[ext=mp4]/best"
                        /\ w.ydl_opts.post = "merge mp4"
          /\ Count(w.log, "open") > 0 =>
                w.final_filename = w.ydl_opts.outtmpl
                                      \o (IF w.data = "audio" THEN ".mp3" ELSE ".mp4")

\* an "audio" press is about to remove its mp3 while a "720" press has sent
\* its mp4
C18_Witness ==
    \E a \in Running, b \in Running :
       /\ Button(a) /\ a.data = "audio" /\ a.pc = "remove"
       /\ a.final_filename \in files
       /\ Button(b) /\ b.data = "720" /\ Count(b.log, "send") = 1

\* C19: a handle_link whose extraction returned an info and that returns
\* without having shown the prompt has not changed what the store held for
\* its user.
C19_NoPromptNoNewRecord ==
    \A w \in Running :
       (Link(w) /\ w.pc = "done" /\ IsInfo(w.info)
          /\ Count(w.log, "prompt") = 0) =>
          ~w.overwrote

\* the step is the one in which w's extraction raises
Raises(w) ==
    /\ Link(w) /\ w.pc = "extract"
    /\ \E w2 \in Moved : w2.pc = "done" /\ Count(w2.log, "store") = 0

====
